---- MODULE Spec2Model ----
(***************************************************************************)
(* typed-lru-cache: the LruCache store of src/lru.py, the memoizing        *)
(* wrapper _LruCacheFunctionWrapper built on it, and the unbounded         *)
(* _CacheFunctionWrapper of src/cache.py (specifications SpecStore and     *)
(* Spec); the cache key the wrappers build from the arguments of a call    *)
(* (SpecKey); the wrappers of src/shelvecache.py and                       *)
(* src/sqlitedictcache.py, whose store is a file (SpecShelf).              *)
(*                                                                         *)
(* The interpreter runs one thing at a time, so a step of the model is one *)
(* uninterrupted stretch of code: a whole LruCache method, or the part of  *)
(* a wrapper call before it enters the wrapped function, or the part after *)
(* the wrapped function has returned or raised.  What the wrapped function *)
(* does in between (nested wrapper calls, direct use of wrapper.cache) is  *)
(* any sequence of steps.                                                  *)
(***************************************************************************)
EXTENDS Integers, Sequences, FiniteSets, TLC

\* ------------------------------------------------------------------ bounds

\* Keys used against a bare LruCache (specification SpecStore): 1..NKeys.
NKeys == 4

\* Arguments the wrapped function is called with (specification Spec): 1..NArgs.
NArgs == 2

\* Values stored in a bare LruCache other than None: 1..MaxVal.
MaxVal == 2

\* Results of the wrapped function other than None: 1..MaxRes.
MaxRes == 1

\* Capacities a store is constructed with: 0..MaxCap.  (The constructor takes
\* any integer; with a negative capacity insert never evicts.)
MaxCap == 2

\* Wrapper calls counted between two cache_clear calls.
MaxCalls == 3

\* Nesting depth of wrapped-function invocations in progress.
MaxDepth == 2

\* Integers passed as arguments in the key construction: 1..MaxInt.
MaxInt == 1

\* Arguments of one call in the key construction, positional and keyword
\* together.
MaxArity == 2

\* Encoded keys the persistent wrappers are called with: 1..NShelfKeys.
NShelfKeys == 2

\* Wrapper instances built with the one basename: 1..NInst.
NInst == 2

\* Nesting depth of the calls of persistent wrappers in progress.
MaxShelfDepth == 2

\* Python's None, as a stored value and as the result of a failed lookup.
None == 0

Keys == 1..NKeys

ArgKeys == 1..NArgs

Values == {None} \cup (1..MaxVal)

Results == {None} \cup (1..MaxRes)

Capacities == 0..MaxCap

\* ------------------------------------------------------------------- state

VARIABLES
    kind,       \* "store": a bare LruCache; "lru": _LruCacheFunctionWrapper;
                \* "plain": _CacheFunctionWrapper
    capacity,   \* LruCache.capacity
    maxsize,    \* _LruCacheFunctionWrapper.__maxsize
    od,         \* LruCache.__cache: the OrderedDict, first item first
    hits,       \* _LruCacheFunctionWrapper.__hits
    misses,     \* _LruCacheFunctionWrapper.__misses
    dict,       \* _CacheFunctionWrapper.__cache: the dict, in insertion order
    stack,      \* call_args of the wrapper calls whose wrapped function is
                \* running, outermost first
    entries,    \* history: for the unbounded wrapper, the dict as each call in
                \* progress found it (parallel to stack)
    last,       \* history: the operation that ran last and what it did
    chain,      \* history: keys touched by the current unbroken run of inserts
    scen,       \* history: how far the operations so far follow Scenario
    calls,      \* history: wrapper calls started since the last cache_clear
    recency,    \* history: the resident keys by the time of their last
                \* successful get or insert, the oldest first
    invoked,    \* history: invocations of the function wrapped by the LRU
                \* wrapper started since the last cache_clear
    started,    \* history: the keys with which the function wrapped by the
                \* unbounded wrapper was invoked
    upset,      \* history: the function wrapped by the unbounded wrapper has
                \* raised, or was re-entered with a key in progress
    kcache,     \* key construction: the dict of a wrapper keyed by call_args
    jcache,     \* key construction: the store of a wrapper keyed by
                \* json.dumps(call_args)
    kfirst,     \* history: the first call of the two wrappers
    klast,      \* history: their latest call and how it was served
    kcalls,     \* history: calls made to them
    backend,    \* persistent wrappers: what is behind the store
    shelf,      \* persistent wrappers: the file of the common basename, a set
                \* of <<key, value>>
    frames,     \* persistent wrappers: the calls whose wrapped function is
                \* running, outermost first, each with its open handle
    nopen,      \* persistent wrappers: handles that are open
    written,    \* history: what completed calls wrote last under each key
    slast       \* history: the latest step of a persistent wrapper

\* The state of the LruCache and of the wrappers kept in memory
\* (specifications SpecStore and Spec).
lruvars == <<kind, capacity, maxsize, od, hits, misses, dict, stack, entries, last,
             chain, scen, calls, recency, invoked, started, upset>>

\* The state of the key construction (specification SpecKey).
keyvars == <<kcache, jcache, kfirst, klast, kcalls>>

\* The state of the persistent wrappers (specification SpecShelf).
shelfvars == <<backend, shelf, frames, nopen, written, slast>>

vars == <<lruvars, keyvars, shelfvars>>

\* ------------------------------------------------- collections.OrderedDict
\* An OrderedDict (and a dict) is a sequence of <<key, value>> items.

OD_keys(d) == [i \in 1..Len(d) |-> d[i][1]]

OD_keyset(d) == {d[i][1] : i \in 1..Len(d)}

OD_contains(d, k) == \E i \in 1..Len(d) : d[i][1] = k

OD_index(d, k) == CHOOSE i \in 1..Len(d) : d[i][1] = k

OD_getitem(d, k) == d[OD_index(d, k)][2]

OD_remove(d, i) == SubSeq(d, 1, i - 1) \o SubSeq(d, i + 1, Len(d))

\* od.move_to_end(key), key present
OD_move_to_end(d, k) == Append(OD_remove(d, OD_index(d, k)), d[OD_index(d, k)])

\* popitem(last=True): a faulty variant of OD_popitem_first
OD_popitem_last(d) == SubSeq(d, 1, Len(d) - 1)

\* od.popitem(last=False), od not empty
OD_popitem_first(d) == Tail(d)

\* od[key] = value that adds an item also for a present key: a faulty variant
\* of OD_setitem
OD_setitem_append(d, k, v) == Append(d, <<k, v>>)

\* od[key] = value: a present key keeps its place
OD_setitem(d, k, v) ==
    IF OD_contains(d, k)
    THEN [d EXCEPT ![OD_index(d, k)] = <<k, v>>]
    ELSE Append(d, <<k, v>>)

\* ---------------------------------------------------------------- LruCache

\* get that stores None under an absent key, as setdefault would: a faulty
\* variant of LruCache_get
LruCache_get_setdefault(d, k) ==
    IF ~OD_contains(d, k)
    THEN [ret |-> None, od |-> Append(d, <<k, None>>)]
    ELSE [ret |-> OD_getitem(OD_move_to_end(d, k), k), od |-> OD_move_to_end(d, k)]

\* get without the move_to_end: a faulty variant of LruCache_get
LruCache_get_nomove(d, k) ==
    IF ~OD_contains(d, k)
    THEN [ret |-> None, od |-> d]
    ELSE [ret |-> OD_getitem(d, k), od |-> d]

\* LruCache.get: the value returned and the OrderedDict afterwards
LruCache_get(d, k) ==
    IF ~OD_contains(d, k)
    THEN [ret |-> None, od |-> d]
    ELSE [ret |-> OD_getitem(OD_move_to_end(d, k), k), od |-> OD_move_to_end(d, k)]

\* insert that never evicts: a faulty variant of LruCache_insert
LruCache_insert_noevict(d, cap, k, v) ==
    [ok |-> TRUE, od |-> OD_move_to_end(OD_setitem(d, k, v), k)]

\* LruCache.insert: ok is FALSE when popitem raises KeyError (the OrderedDict is
\* empty and capacity is 0); the OrderedDict is then as it was.
LruCache_insert(d, cap, k, v) ==
    IF Len(d) = cap /\ Len(d) = 0
    THEN [ok |-> FALSE, od |-> d]
    ELSE LET e == IF Len(d) = cap THEN OD_popitem_first(d) ELSE d
         IN  [ok |-> TRUE, od |-> OD_move_to_end(OD_setitem(e, k, v), k)]

\* LruCache.__len__
LruCache_len == Len(od)

\* --------------------------------------------------------------- histories

\* The sequence of section 8's recency example.
Scenario ==
    << [op |-> "insert", key |-> 1], [op |-> "insert", key |-> 2],
       [op |-> "insert", key |-> 3], [op |-> "get", key |-> 1],
       [op |-> "insert", key |-> 4] >>

ScenNext(op, k) ==
    IF /\ kind = "store"
       /\ scen >= 0 /\ scen < Len(Scenario)
       /\ Scenario[scen + 1] = [op |-> op, key |-> k]
    THEN scen + 1
    ELSE -1

LastN(s, n) == IF Len(s) <= n THEN s ELSE SubSeq(s, Len(s) - n + 1, Len(s))

\* The run of inserts after a store operation: a get that finds k and an insert
\* of a resident k start a run at k, an insert of a non-resident k extends the
\* run, anything else ends it.  Only the last `capacity` keys are kept.
ChainNext(op, k, ok) ==
    IF kind # "store" THEN << >>
    ELSE IF op = "get" /\ OD_contains(od, k) THEN <<k>>
    ELSE IF op = "insert" /\ ok /\ OD_contains(od, k) THEN <<k>>
    ELSE IF op = "insert" /\ ok THEN LastN(Append(chain, k), capacity)
    ELSE << >>

\* The keys of the store `newod` by the time of their last successful get or
\* insert, after an operation that looked up or inserted k (0: no key).
RecencyNext(k, newod) ==
    LET kept == SelectSeq(recency, LAMBDA x : x # k /\ x \in OD_keyset(newod))
    IN  IF k \in OD_keyset(newod) THEN Append(kept, k) ELSE kept

\* The record of an operation: its name, its key (0: none), the value it was
\* given or returned, whether it completed, whether a wrapper call was counted
\* a hit, and the keys it removed from the store.
Did(op, k, v, ok, hit, newod) ==
    [op |-> op, key |-> k, val |-> v, ok |-> ok, hit |-> hit,
     removed |-> OD_keyset(od) \ OD_keyset(newod)]

\* ------------------------------------------------------ LruCache operations

\* The store is used directly (a bare LruCache, or wrapper.cache) while no
\* wrapped function is running.
HasStore == kind \in {"store", "lru"} /\ stack = << >>

\* cache.get(k)
Get(k) ==
    /\ HasStore
    /\ od' = LruCache_get(od, k).od
    /\ last' = Did("get", k, LruCache_get(od, k).ret, TRUE, OD_contains(od, k), od')
    /\ chain' = ChainNext("get", k, TRUE)
    /\ scen' = ScenNext("get", k)
    /\ recency' = RecencyNext(k, od')
    /\ UNCHANGED <<kind, capacity, maxsize, hits, misses, dict, stack, entries, calls>>
    /\ UNCHANGED <<invoked, started, upset, keyvars, shelfvars>>

\* cache.insert(k, v)
Insert(k, v) ==
    /\ HasStore
    /\ od' = LruCache_insert(od, capacity, k, v).od
    /\ last' = Did("insert", k, v, LruCache_insert(od, capacity, k, v).ok, FALSE, od')
    /\ chain' = ChainNext("insert", k, LruCache_insert(od, capacity, k, v).ok)
    /\ scen' = ScenNext("insert", k)
    /\ recency' = RecencyNext(k, od')
    /\ UNCHANGED <<kind, capacity, maxsize, hits, misses, dict, stack, entries, calls>>
    /\ UNCHANGED <<invoked, started, upset, keyvars, shelfvars>>

\* cache.clear()
Clear ==
    /\ HasStore
    /\ od' = << >>
    /\ last' = Did("clear", 0, None, TRUE, FALSE, od')
    /\ chain' = << >>
    /\ scen' = -1
    /\ recency' = RecencyNext(0, od')
    /\ UNCHANGED <<kind, capacity, maxsize, hits, misses, dict, stack, entries, calls>>
    /\ UNCHANGED <<invoked, started, upset, keyvars, shelfvars>>

\* ------------------------------------------------ _LruCacheFunctionWrapper

\* __call__ that invokes the wrapped function also on a hit: a faulty variant
\* of Wrapper_call
Wrapper_call_recompute(d, h, m, k) ==
    IF LruCache_get(d, k).ret = None
    THEN [od |-> LruCache_get(d, k).od, hits |-> h, misses |-> m + 1,
          invoke |-> TRUE, ret |-> None]
    ELSE [od |-> LruCache_get(d, k).od, hits |-> h + 1, misses |-> m,
          invoke |-> TRUE, ret |-> LruCache_get(d, k).ret]

\* __call__ that increments hits on every call, also on a miss: a faulty
\* variant of Wrapper_call
Wrapper_call_miscount(d, h, m, k) ==
    IF LruCache_get(d, k).ret = None
    THEN [od |-> LruCache_get(d, k).od, hits |-> h + 1, misses |-> m + 1,
          invoke |-> TRUE, ret |-> None]
    ELSE [od |-> LruCache_get(d, k).od, hits |-> h + 1, misses |-> m,
          invoke |-> FALSE, ret |-> LruCache_get(d, k).ret]

\* __call__ up to the call of the wrapped function: the lookup, the counter it
\* increments, whether the wrapped function is invoked, and the value returned
\* at once when it is not.
Wrapper_call(d, h, m, k) ==
    IF LruCache_get(d, k).ret = None
    THEN [od |-> LruCache_get(d, k).od, hits |-> h, misses |-> m + 1,
          invoke |-> TRUE, ret |-> None]
    ELSE [od |-> LruCache_get(d, k).od, hits |-> h + 1, misses |-> m,
          invoke |-> FALSE, ret |-> LruCache_get(d, k).ret]

\* a wrapper that stores None for a call that raised: a faulty variant of
\* Wrapper_raise
Wrapper_raise_stores(d, cap, k) == LruCache_insert(d, cap, k, None).od

\* __call__ when the wrapped function raises: line 58 is not reached, the
\* store is left as it is.
Wrapper_raise(d, cap, k) == d

\* cache_clear that forgets to reset misses: a faulty variant of
\* Wrapper_cache_clear
Wrapper_cache_clear_keeps == [od |-> << >>, hits |-> 0, misses |-> misses]

\* cache_clear
Wrapper_cache_clear == [od |-> << >>, hits |-> 0, misses |-> 0]

\* cache_info()
cache_info ==
    [hits |-> hits, misses |-> misses, maxsize |-> maxsize, currsize |-> LruCache_len]

Top == stack[Len(stack)]

Pop == SubSeq(stack, 1, Len(stack) - 1)

\* wrapper(k), as far as its return (a hit) or the entry into the wrapped
\* function (a miss)
Call(k) ==
    /\ kind = "lru"
    /\ hits + misses < MaxCalls
    /\ Wrapper_call(od, hits, misses, k).invoke => Len(stack) < MaxDepth
    /\ od' = Wrapper_call(od, hits, misses, k).od
    /\ hits' = Wrapper_call(od, hits, misses, k).hits
    /\ misses' = Wrapper_call(od, hits, misses, k).misses
    /\ stack' = IF Wrapper_call(od, hits, misses, k).invoke
                THEN Append(stack, k)
                ELSE stack
    /\ last' = Did("call", k, Wrapper_call(od, hits, misses, k).ret, TRUE,
                   ~Wrapper_call(od, hits, misses, k).invoke, od')
    /\ chain' = ChainNext("get", k, TRUE)
    /\ scen' = ScenNext("get", k)
    /\ calls' = calls + 1
    /\ recency' = RecencyNext(k, od')
    /\ invoked' = IF Wrapper_call(od, hits, misses, k).invoke
                  THEN invoked + 1
                  ELSE invoked
    /\ UNCHANGED <<kind, capacity, maxsize, dict, entries>>
    /\ UNCHANGED <<started, upset, keyvars, shelfvars>>

\* the wrapped function of the innermost call returns v: the insert of line 58
\* and the return; when the insert raises, its KeyError goes to the caller
Return(v) ==
    /\ kind = "lru"
    /\ stack # << >>
    /\ od' = LruCache_insert(od, capacity, Top, v).od
    /\ stack' = Pop
    /\ last' = Did("return", Top, v, LruCache_insert(od, capacity, Top, v).ok, FALSE, od')
    /\ chain' = ChainNext("insert", Top, LruCache_insert(od, capacity, Top, v).ok)
    /\ scen' = ScenNext("insert", Top)
    /\ recency' = RecencyNext(Top, od')
    /\ UNCHANGED <<kind, capacity, maxsize, hits, misses, dict, entries, calls>>
    /\ UNCHANGED <<invoked, started, upset, keyvars, shelfvars>>

\* the wrapped function of the innermost call raises: the exception leaves
\* __call__ at line 57 and reaches the caller
Raise ==
    /\ kind = "lru"
    /\ stack # << >>
    /\ od' = Wrapper_raise(od, capacity, Top)
    /\ stack' = Pop
    /\ last' = Did("raise", Top, None, FALSE, FALSE, od')
    /\ recency' = RecencyNext(0, od')
    /\ UNCHANGED <<kind, capacity, maxsize, hits, misses, dict, entries, chain, scen, calls>>
    /\ UNCHANGED <<invoked, started, upset, keyvars, shelfvars>>

\* wrapper.cache_clear()
CacheClear ==
    /\ kind = "lru"
    /\ od' = Wrapper_cache_clear.od
    /\ hits' = Wrapper_cache_clear.hits
    /\ misses' = Wrapper_cache_clear.misses
    /\ last' = Did("cache_clear", 0, None, TRUE, FALSE, od')
    /\ chain' = << >>
    /\ scen' = -1
    /\ calls' = 0
    /\ recency' = RecencyNext(0, od')
    /\ invoked' = 0
    /\ UNCHANGED <<kind, capacity, maxsize, dict, stack, entries>>
    /\ UNCHANGED <<started, upset, keyvars, shelfvars>>

\* --------------------------------------------------- _CacheFunctionWrapper

\* __call__ when the wrapped function raises: line 22 is not reached
Plain_raise(d, k) == d

\* a wrapper that does not store a result of None: a faulty variant of
\* Plain_store
Plain_store_skips_none(d, k, v) == IF v = None THEN d ELSE OD_setitem(d, k, v)

\* self.__cache[call_args] = ret
Plain_store(d, k, v) == OD_setitem(d, k, v)

\* wrapper(k) of the unbounded wrapper: a key of the dict is returned at once,
\* any other enters the wrapped function
PlainCall(k) ==
    /\ kind = "plain"
    /\ ~OD_contains(dict, k) => Len(stack) < MaxDepth
    /\ stack' = IF OD_contains(dict, k) THEN stack ELSE Append(stack, k)
    /\ entries' = IF OD_contains(dict, k) THEN entries ELSE Append(entries, dict)
    /\ last' = [op |-> "call", key |-> k,
                val |-> IF OD_contains(dict, k) THEN OD_getitem(dict, k) ELSE None,
                ok |-> TRUE, hit |-> OD_contains(dict, k), removed |-> {}]
    /\ started' = IF OD_contains(dict, k) THEN started ELSE started \cup {k}
    /\ upset' = (upset \/ (~OD_contains(dict, k) /\ \E i \in 1..Len(stack) : stack[i] = k))
    /\ UNCHANGED <<kind, capacity, maxsize, od, hits, misses, dict, chain, scen, calls,
                   recency>>
    /\ UNCHANGED <<invoked, keyvars, shelfvars>>

\* the wrapped function of the innermost call returns v
PlainReturn(v) ==
    /\ kind = "plain"
    /\ stack # << >>
    /\ dict' = Plain_store(dict, Top, v)
    /\ stack' = Pop
    /\ entries' = SubSeq(entries, 1, Len(entries) - 1)
    /\ last' = [op |-> "return", key |-> Top, val |-> v, ok |-> TRUE, hit |-> FALSE,
                removed |-> OD_keyset(dict) \ OD_keyset(dict')]
    /\ UNCHANGED <<kind, capacity, maxsize, od, hits, misses, chain, scen, calls, recency>>
    /\ UNCHANGED <<invoked, started, upset, keyvars, shelfvars>>

\* the wrapped function of the innermost call raises
PlainRaise ==
    /\ kind = "plain"
    /\ stack # << >>
    /\ dict' = Plain_raise(dict, Top)
    /\ stack' = Pop
    /\ entries' = SubSeq(entries, 1, Len(entries) - 1)
    /\ last' = [op |-> "raise", key |-> Top, val |-> None, ok |-> FALSE, hit |-> FALSE,
                removed |-> OD_keyset(dict) \ OD_keyset(dict')]
    /\ upset' = TRUE
    /\ UNCHANGED <<kind, capacity, maxsize, od, hits, misses, chain, scen, calls, recency>>
    /\ UNCHANGED <<invoked, started, keyvars, shelfvars>>

\* -------------------------------------------------------- key construction
\* call_args = args + tuple(kwargs.items()), and json.dumps of it.  A Python
\* value is an int or a tuple (str, int); args is a sequence of values, kwargs
\* the sequence of <<name, int>> in the order the caller wrote them (a dict
\* keeps the insertion order of its items).

PyInt(n) == [tag |-> "int", name |-> "", num |-> n]

\* the tuple (s, n)
PyPair(s, n) == [tag |-> "tuple", name |-> s, num |-> n]

\* tuple(kwargs.items()): one tuple (name, value) for each keyword argument, in
\* insertion order
kwargs_items(kw) == [i \in 1..Len(kw) |-> PyPair(kw[i][1], kw[i][2])]

\* args + tuple(kwargs.items())
call_args(c) == c.args \o kwargs_items(c.kwargs)

\* json.dumps of one value, as its tokens: an int is its digits, a tuple is
\* written as a list
json_value(x) ==
    IF x.tag = "int"
    THEN <<ToString(x.num)>>
    ELSE <<"[", x.name, ",", ToString(x.num), "]">>

RECURSIVE json_items(_)
json_items(t) ==
    IF t = << >> THEN << >>
    ELSE IF Len(t) = 1 THEN json_value(t[1])
    ELSE json_value(t[1]) \o <<",">> \o json_items(Tail(t))

\* json.dumps(call_args)
json_dumps(t) == <<"[">> \o json_items(t) \o <<"]">>

KwNames == {"a", "b"}

PosValues == {PyInt(n) : n \in 1..MaxInt} \cup {PyPair("a", n) : n \in 1..MaxInt}

SeqsUpTo(S, n) == UNION {[1..m -> S] : m \in 0..n}

\* The calls f(*args, **kwargs) made: no keyword twice.
KeyCalls ==
    {c \in [args : SeqsUpTo(PosValues, MaxArity),
            kwargs : SeqsUpTo(KwNames \X (1..MaxInt), MaxArity)] :
        /\ Len(c.args) + Len(c.kwargs) <= MaxArity
        /\ \A i, j \in 1..Len(c.kwargs) : c.kwargs[i][1] = c.kwargs[j][1] => i = j}

\* What the wrapped function receives: args as a tuple, kwargs as a dict, and
\* two dicts are equal when they hold the same items.  The wrapped function
\* of the key construction returns just that.
BoundArgs(c) ==
    [args |-> c.args, kwargs |-> {c.kwargs[i] : i \in 1..Len(c.kwargs)}]

\* __call__ of a wrapper whose store is d and whose key is key, for a wrapped
\* function that returns at once: the store afterwards, whether the call was
\* served from the store, and what it returned
Keyed_call(d, key, c) ==
    IF ~OD_contains(d, key)
    THEN [store |-> OD_setitem(d, key, BoundArgs(c)), hit |-> FALSE, ret |-> BoundArgs(c)]
    ELSE [store |-> d, hit |-> TRUE, ret |-> OD_getitem(d, key)]

\* f(*c.args, **c.kwargs) through a wrapper keyed by call_args and through a
\* wrapper keyed by json.dumps(call_args)
KeyCall(c) ==
    /\ kcache' = Keyed_call(kcache, call_args(c), c).store
    /\ jcache' = Keyed_call(jcache, json_dumps(call_args(c)), c).store
    /\ klast' = [call |-> c,
                 hit |-> Keyed_call(kcache, call_args(c), c).hit,
                 ret |-> Keyed_call(kcache, call_args(c), c).ret,
                 jhit |-> Keyed_call(jcache, json_dumps(call_args(c)), c).hit,
                 jret |-> Keyed_call(jcache, json_dumps(call_args(c)), c).ret]
    /\ kcalls' = kcalls + 1
    /\ UNCHANGED <<lruvars, shelfvars>>

\* the first call of the wrappers
KeyCallFirst(c) ==
    /\ kcalls = 0
    /\ kfirst' = c
    /\ KeyCall(c)

\* a call of the wrappers after their first
KeyCallLater(c) ==
    /\ kcalls = 1
    /\ kfirst' = kfirst
    /\ KeyCall(c)

\* ----------------------- _ShelfCacheFunctionWrapper, _SQLiteDictCacheFunctionWrapper
\* Wrappers built with one basename use one file.  What shelve.open gives
\* depends on the dbm module of the build: dbm.gnu locks the file, so that a
\* second open fails while a handle is open; dbm.dumb gives every handle its
\* own copy of the index, read at open and written back at close by a handle
\* that stored something.  A sqlitedict handle is a connection to the one
\* database, and line 28 commits what the call stored.

Backends == {"gdbm", "dumb", "sqlite"}

Shelf_contains(s, k) == \E e \in s : e[1] = k

Shelf_getitem(s, k) == (CHOOSE e \in s : e[1] = k)[2]

Shelf_setitem(s, k, v) == {e \in s : e[1] # k} \cup {<<k, v>>}

\* shelve.open / sqlitedict.open succeeds
Shelf_open_ok == ~(backend = "gdbm" /\ nopen > 0)

\* The result of the function wrapped by instance i: every instance wraps a
\* function of its own, which returns i.
ShelfResult(i, k) == i

\* The file after a call that opened its handle when the file was `index`
\* has stored v under k and closed the handle.
Shelf_store(index, k, v) ==
    IF backend = "dumb"
    THEN Shelf_setitem(index, k, v)
    ELSE Shelf_setitem(shelf, k, v)

TopFrame == frames[Len(frames)]

\* wrapper i called with the encoded key k, as far as its return (the open
\* failed, or the key is in the file) or the entry into the wrapped function
\* with the handle open
ShelfCall(i, k) ==
    LET ok == Shelf_open_ok
        hit == ok /\ Shelf_contains(shelf, k)
    IN  /\ backend \in Backends
        /\ (ok /\ ~hit) => Len(frames) < MaxShelfDepth
        /\ frames' = IF ok /\ ~hit
                      THEN Append(frames, [inst |-> i, key |-> k,
                                           index |-> IF backend = "dumb" THEN shelf ELSE {}])
                      ELSE frames
        /\ nopen' = IF ok /\ ~hit THEN nopen + 1 ELSE nopen
        /\ slast' = [op |-> "call", inst |-> i, key |-> k, ok |-> ok, hit |-> hit,
                     val |-> IF hit THEN Shelf_getitem(shelf, k) ELSE None]
        /\ UNCHANGED <<backend, shelf, written>>
        /\ UNCHANGED <<lruvars, keyvars>>

\* the wrapped function of the innermost call returns: the result is stored
\* (and committed), the with block closes the handle
ShelfReturn ==
    /\ backend \in Backends
    /\ frames # << >>
    /\ shelf' = Shelf_store(TopFrame.index, TopFrame.key,
                            ShelfResult(TopFrame.inst, TopFrame.key))
    /\ written' = Shelf_setitem(written, TopFrame.key,
                                ShelfResult(TopFrame.inst, TopFrame.key))
    /\ frames' = SubSeq(frames, 1, Len(frames) - 1)
    /\ nopen' = nopen - 1
    /\ slast' = [op |-> "return", inst |-> TopFrame.inst, key |-> TopFrame.key,
                 ok |-> TRUE, hit |-> FALSE,
                 val |-> ShelfResult(TopFrame.inst, TopFrame.key)]
    /\ UNCHANGED backend
    /\ UNCHANGED <<lruvars, keyvars>>

\* the wrapped function of the innermost call raises (an exception of its own,
\* or that of a nested call whose open failed): nothing is stored, the with
\* block closes the handle
ShelfRaise ==
    /\ backend \in Backends
    /\ frames # << >>
    /\ frames' = SubSeq(frames, 1, Len(frames) - 1)
    /\ nopen' = nopen - 1
    /\ slast' = [op |-> "raise", inst |-> TopFrame.inst, key |-> TopFrame.key,
                 ok |-> FALSE, hit |-> FALSE, val |-> None]
    /\ UNCHANGED <<backend, shelf, written>>
    /\ UNCHANGED <<lruvars, keyvars>>

\* ---------------------------------------------------------- specifications

\* No LruCache and no wrapper kept in memory.
LruIdle ==
    /\ kind = "none"
    /\ capacity = 0
    /\ maxsize = 0
    /\ od = << >>
    /\ hits = 0
    /\ misses = 0
    /\ dict = << >>
    /\ stack = << >>
    /\ entries = << >>
    /\ last = [op |-> "new", key |-> 0, val |-> None, ok |-> TRUE, hit |-> FALSE,
               removed |-> {}]
    /\ chain = << >>
    /\ scen = 0
    /\ calls = 0
    /\ recency = << >>
    /\ invoked = 0
    /\ started = {}
    /\ upset = FALSE

NoCall == [args |-> << >>, kwargs |-> << >>]

\* Two wrappers with nothing stored and no call made.
KeyIdle ==
    /\ kcache = << >>
    /\ jcache = << >>
    /\ kfirst = NoCall
    /\ klast = [call |-> NoCall, hit |-> FALSE, ret |-> BoundArgs(NoCall),
                jhit |-> FALSE, jret |-> BoundArgs(NoCall)]
    /\ kcalls = 0

\* A file with nothing in it and no call in progress.
ShelfNew ==
    /\ shelf = {}
    /\ frames = << >>
    /\ nopen = 0
    /\ written = {}
    /\ slast = [op |-> "new", inst |-> 0, key |-> 0, ok |-> TRUE, hit |-> FALSE,
                val |-> None]

\* No persistent wrapper.
ShelfIdle == backend = "none" /\ ShelfNew

\* LruCache(capacity): the constructor takes any capacity it is given.
InitStore ==
    /\ kind = "store"
    /\ capacity \in Capacities
    /\ maxsize = capacity
    /\ od = << >>
    /\ hits = 0
    /\ misses = 0
    /\ dict = << >>
    /\ stack = << >>
    /\ entries = << >>
    /\ last = [op |-> "new", key |-> 0, val |-> None, ok |-> TRUE, hit |-> FALSE,
               removed |-> {}]
    /\ chain = << >>
    /\ scen = 0
    /\ calls = 0
    /\ recency = << >>
    /\ invoked = 0
    /\ started = {}
    /\ upset = FALSE
    /\ KeyIdle
    /\ ShelfIdle

NextStore ==
    \/ \E k \in Keys : Get(k)
    \/ \E k \in Keys, v \in Values : Insert(k, v)
    \/ Clear

SpecStore == InitStore /\ [][NextStore]_vars

\* lru_cache(maxsize)(func) or cache()(func): a wrapper with nothing stored
Init ==
    /\ kind \in {"lru", "plain"}
    /\ capacity \in (IF kind = "lru" THEN Capacities ELSE {0})
    /\ maxsize = capacity
    /\ od = << >>
    /\ hits = 0
    /\ misses = 0
    /\ dict = << >>
    /\ stack = << >>
    /\ entries = << >>
    /\ last = [op |-> "new", key |-> 0, val |-> None, ok |-> TRUE, hit |-> FALSE,
               removed |-> {}]
    /\ chain = << >>
    /\ scen = 0
    /\ calls = 0
    /\ recency = << >>
    /\ invoked = 0
    /\ started = {}
    /\ upset = FALSE
    /\ KeyIdle
    /\ ShelfIdle

Next ==
    \/ \E k \in ArgKeys : Get(k)
    \/ \E k \in ArgKeys, v \in Results : Insert(k, v)
    \/ Clear
    \/ \E k \in ArgKeys : Call(k)
    \/ \E v \in Results : Return(v)
    \/ Raise
    \/ CacheClear
    \/ \E k \in ArgKeys : PlainCall(k)
    \/ \E v \in Results : PlainReturn(v)
    \/ PlainRaise

Spec == Init /\ [][Next]_vars

\* cache()(func) and a wrapper of a persistent store, both new, called with
\* the same arguments
InitKey == LruIdle /\ KeyIdle /\ ShelfIdle

NextKey ==
    \/ \E c \in KeyCalls : KeyCallFirst(c)
    \/ \E c \in KeyCalls : KeyCallLater(c)

SpecKey == InitKey /\ [][NextKey]_vars

\* shelf_cache(basename)(func) or sqlitedict_cache(basename)(func), NInst
\* times with the same basename, and no file of that name yet
InitShelf == LruIdle /\ KeyIdle /\ backend \in Backends /\ ShelfNew

NextShelf ==
    \/ \E i \in 1..NInst, k \in 1..NShelfKeys : ShelfCall(i, k)
    \/ ShelfReturn
    \/ ShelfRaise

SpecShelf == InitShelf /\ [][NextShelf]_vars

\* ------------------------------------------------------------------ claims

IsLru == kind \in {"store", "lru"}

Resident == OD_keyset(od)

\* C1: a store constructed with capacity C >= 1 never holds more than C keys,
\* whatever get, insert and clear operations and (nested) wrapper calls ran.
C1_CapacityBound == (IsLru /\ capacity >= 1) => LruCache_len <= capacity

\* C1 witness: a nested wrapper call has just stored its result in a full
\* store, which evicted a key.
C1_Witness ==
    /\ kind = "lru" /\ capacity >= 1
    /\ last.op = "return" /\ last.removed # {}
    /\ stack # << >>
    /\ LruCache_len = capacity

\* C2: an insert of a non-resident key into a full store removes exactly one
\* key, the one whose last successful get or insert is the oldest; every other
\* resident key keeps its value, and the new key is stored.
C2_EvictsLeastRecent ==
    [][(/\ last'.op = "insert" /\ last'.ok
        /\ capacity >= 1
        /\ ~OD_contains(od, last'.key)
        /\ LruCache_len = capacity)
       => /\ Resident \ OD_keyset(od') = {Head(recency)}
          /\ last'.removed = {Head(recency)}
          /\ \A k \in Resident \ {Head(recency)} :
                OD_contains(od', k) /\ OD_getitem(od', k) = OD_getitem(od, k)
          /\ OD_keyset(od') = (Resident \ {Head(recency)}) \cup {last'.key}
          /\ OD_getitem(od', last'.key) = last'.val]_vars

\* C2 witness: two inserts in a row each evicted a key from a full store of
\* capacity 2: the store holds the last two keys inserted.
C2_Witness ==
    /\ capacity = 2 /\ LruCache_len = 2
    /\ last.op = "insert" /\ last.ok /\ last.removed # {}
    /\ Len(chain) = 2
    /\ OD_keys(od) = chain

\* C3 (as claimed): an insert of a resident key overwrites its value and
\* evicts nothing: the resident keys and len() are as before, and the key now
\* holds the value inserted.
C3_OverwriteEvictsNothing ==
    [][(last'.op = "insert" /\ last'.ok /\ OD_contains(od, last'.key))
       => /\ OD_keyset(od') = Resident
          /\ Len(od') = Len(od)
          /\ LruCache_get(od', last'.key).ret = last'.val]_vars

\* C4: after a get that finds K or an insert of K, K is at the most recently
\* used end; after n <= C-1 following inserts of non-resident keys K is still
\* resident and the only keys more recent than K are those n keys, so every
\* key that was resident when K was touched leaves the store before K does.
C4_TouchedKeyIsMostRecent ==
    (IsLru /\ capacity >= 1) =>
        /\ ((last.op = "get" /\ last.hit) \/ (last.op = "insert" /\ last.ok))
              => (od # << >> /\ od[Len(od)][1] = last.key)
        /\ Len(chain) <= Len(od)
        /\ SubSeq(OD_keys(od), Len(od) - Len(chain) + 1, Len(od)) = chain

\* C4 witness: K was touched, then C-1 = 1 non-resident key was inserted into
\* the full store of capacity 2, which evicted a key other than K and left K
\* the next key to go.
C4_Witness ==
    /\ capacity = 2
    /\ Len(chain) = 2
    /\ last.op = "insert" /\ last.removed # {} /\ ~(chain[1] \in last.removed)
    /\ od[1][1] = chain[1]

\* C5 (as claimed): with capacity 2, insert(1), insert(2), insert(3), get(1),
\* insert(4) makes insert(4) evict key 2 and leaves the keys {1, 4}.
C5_ScenarioAsClaimed ==
    (capacity = 2 /\ scen = Len(Scenario)) =>
        (last.removed = {2} /\ Resident = {1, 4})

\* C5 (amended): in that sequence insert(3) evicts key 1, so get(1) finds
\* nothing and moves nothing; insert(4) evicts key 2 and leaves the keys
\* {3, 4}.
C5_ScenarioAmended ==
    capacity = 2 =>
        /\ scen = 3 => (last.removed = {1} /\ Resident = {2, 3})
        /\ scen = 4 => (~last.hit /\ last.val = None /\ Resident = {2, 3})
        /\ scen = Len(Scenario) => (last.removed = {2} /\ Resident = {3, 4})

\* C5 witness: the five operations have run against a store of capacity 2.
C5_Witness == capacity = 2 /\ scen = Len(Scenario) /\ last.op = "insert" /\ last.key = 4

\* C6: every wrapper call increments exactly one of hits and misses, by 1, and
\* a call on a non-resident key increments misses; no other operation than
\* cache_clear changes a counter; hits + misses is the number of calls started
\* since the last cache_clear.
C6_HitMissAccounting ==
    [][kind = "lru" =>
        /\ calls' = hits' + misses'
        /\ last'.op = "call" =>
              /\ \/ (hits' = hits + 1 /\ misses' = misses)
                 \/ (hits' = hits /\ misses' = misses + 1)
              /\ ~OD_contains(od, last'.key) => (misses' = misses + 1 /\ hits' = hits)
              /\ calls' = calls + 1
        /\ ~(last'.op \in {"call", "cache_clear"}) =>
              (hits' = hits /\ misses' = misses /\ calls' = calls)]_vars

\* C6 witness: a nested call was just counted a miss, after a hit and a miss.
C6_Witness ==
    /\ kind = "lru"
    /\ last.op = "call" /\ ~last.hit
    /\ Len(stack) = 2
    /\ hits = 1 /\ misses = 2

\* C7 (as claimed): a call whose key is resident is a hit: it increments hits
\* and not misses, does not invoke the wrapped function and returns the stored
\* value, whatever that value is.
C7_ResidentKeyIsHit ==
    [][(kind = "lru" /\ last'.op = "call" /\ OD_contains(od, last'.key))
       => /\ hits' = hits + 1 /\ misses' = misses
          /\ last'.hit
          /\ stack' = stack
          /\ last'.val = OD_getitem(od, last'.key)]_vars

\* C8: right after cache_clear, cache_info() is (hits 0, misses 0, the same
\* maxsize, currsize 0), and the next call with a key that was resident before
\* it is a miss that invokes the wrapped function.
C8_ClearResets ==
    [][kind = "lru" =>
        /\ last'.op = "cache_clear" =>
              cache_info' = [hits |-> 0, misses |-> 0, maxsize |-> maxsize, currsize |-> 0]
        /\ (last.op = "cache_clear" /\ last'.op = "call" /\ last'.key \in last.removed) =>
              /\ ~last'.hit
              /\ cache_info'.misses = 1 /\ cache_info'.hits = 0
              /\ stack' = Append(stack, last'.key)]_vars

\* C8 witness: a call missed on a key that the cache_clear before it removed.
C8_Witness ==
    /\ kind = "lru"
    /\ last.op = "call" /\ ~last.hit
    /\ hits = 0 /\ misses = 1 /\ calls = 1
    /\ od = << >>
    /\ stack = <<last.key>>
    /\ recency = << >>

\* The resident keys with their values, of a store or a dict.
Items(d) == {d[i] : i \in 1..Len(d)}

StoreOf == IF kind = "plain" THEN dict ELSE od

\* C9 (as claimed): when the wrapped function raises, the call ends with the
\* failure, the cache holds the keys and values it held before the call, and
\* the next call with the same arguments invokes the wrapped function again;
\* for both wrappers.  (The first part is stated of a call whose own key is
\* not stored when it fails, as for every function that is not re-entered with
\* the same arguments; what the LRU store held before the call is not
\* recorded, so there it is stated of the step that raises.)
C9_RaiseAsClaimed ==
    [][/\ (last'.op = "raise" /\ ~OD_contains(StoreOf, Top)) =>
              /\ ~last'.ok /\ stack' = Pop
              /\ Items(StoreOf') =
                    Items(IF kind = "plain" THEN entries[Len(entries)] ELSE od)
       /\ (last.op = "raise" /\ last'.op = "call" /\ last'.key = last.key) =>
              (~last'.hit /\ stack' = Append(stack, last'.key))]_vars

\* C9 (amended): when the wrapped function raises, the call ends with the
\* failure and stores nothing: the cache is as it was when the wrapped function
\* raised, which is as it was before the call when nothing ran in between;
\* the counters stay; and the next call with the same arguments invokes the
\* wrapped function again when the key is not stored at that time.
C9_RaiseStoresNothing ==
    [][/\ last'.op = "raise" =>
              /\ ~last'.ok /\ stack' = Pop
              /\ Items(StoreOf') = Items(StoreOf)
              /\ hits' = hits /\ misses' = misses
              /\ (last.op = "call" /\ ~last.hit /\ kind = "plain") =>
                    Items(StoreOf') = Items(entries[Len(entries)])
       /\ (last'.op = "call" /\ ~last'.hit) => Items(StoreOf') = Items(StoreOf)
       /\ (/\ last.op = "raise" /\ last'.op = "call" /\ last'.key = last.key
           /\ ~OD_contains(StoreOf, last.key)) =>
              (~last'.hit /\ stack' = Append(stack, last'.key))]_vars

\* C9 witness: the outermost call of the LRU wrapper has just failed, after a
\* nested call stored its result.
C9_Witness ==
    /\ kind = "lru"
    /\ last.op = "raise" /\ ~last.ok
    /\ stack = << >>
    /\ od # << >> /\ ~OD_contains(od, last.key)
    /\ misses = 2

\* C10 (as claimed): when every key fits in the store, repeating a completed
\* outermost call is one hit: hits + 1, misses unchanged, the wrapped function
\* not invoked, the same value returned.
C10_RepeatIsOneHit ==
    [][(/\ kind = "lru" /\ NArgs <= maxsize
        /\ last.op = "return" /\ last.ok /\ stack = << >>
        /\ last'.op = "call" /\ last'.key = last.key)
       => /\ last'.hit
          /\ hits' = hits + 1 /\ misses' = misses
          /\ stack' = stack
          /\ last'.val = last.val]_vars

\* C11 (as claimed): no store with a capacity below 1 exists: construction
\* with such a capacity fails.
C11_NoStoreBelowOne == IsLru => capacity >= 1

\* C12 (as claimed): an insert of K, V right after an insert of K, V leaves
\* the store as the first insert left it (the same items in the same order,
\* the same len()), and leaves the counters of the owning wrapper as they were.
C12_InsertTwiceIsOnce ==
    [][(/\ last.op = "insert" /\ last.ok
        /\ last'.op = "insert" /\ last'.key = last.key /\ last'.val = last.val)
       => /\ last'.ok
          /\ od' = od
          /\ Len(od') = Len(od)
          /\ last'.removed = {}
          /\ hits' = hits /\ misses' = misses]_vars

\* C13: a get leaves the resident keys, their values and len() as they were;
\* a get of an absent key returns None and leaves the order as it was; a get
\* of a resident key returns its value and moves nothing but that key: the
\* other keys keep their order.
C13_GetFrame ==
    [][last'.op = "get" =>
        /\ last'.ok
        /\ Items(od') = Items(od)
        /\ Len(od') = Len(od)
        /\ last'.removed = {}
        /\ ~OD_contains(od, last'.key) =>
              (last'.val = None /\ od' = od /\ recency' = recency)
        /\ OD_contains(od, last'.key) =>
              /\ last'.val = OD_getitem(od, last'.key)
              /\ SelectSeq(od', LAMBDA x : x[1] # last'.key)
                    = SelectSeq(od, LAMBDA x : x[1] # last'.key)]_vars

\* C13 witness: a get found the key that was the least recently used of a full
\* store of capacity 2 and moved it behind the other.
C13_Witness ==
    /\ kind = "store" /\ capacity = 2 /\ LruCache_len = 2
    /\ last.op = "get" /\ last.hit /\ last.val # None
    /\ chain = <<last.key>>
    /\ od[2][1] = last.key
    /\ od[1][1] > od[2][1]

\* C16: in every state of a store the order holds each resident key once and
\* no other key, so its length is len(); it is the order in which the resident
\* keys were last successfully looked up or inserted; after clear() nothing is
\* left of the mapping and of the order.
C16_OrderIsResidentKeys ==
    IsLru =>
        /\ \A i, j \in 1..Len(od) : od[i][1] = od[j][1] => i = j
        /\ Cardinality(Resident) = LruCache_len
        /\ \A k \in Resident : LruCache_get(od, k).ret = OD_getitem(od, k)
        /\ OD_keys(od) = recency
        /\ last.op = "clear" => (od = << >> /\ Resident = {} /\ LruCache_len = 0)

\* C16 witness: a resident key was inserted again, and the store holds it once,
\* behind the other key.
C16_Witness ==
    /\ kind = "store" /\ LruCache_len = 2
    /\ last.op = "insert" /\ last.ok /\ last.removed = {}
    /\ chain = <<last.key>>
    /\ OD_keys(od) = <<3, last.key>>

\* C17 (as claimed): no insert, get or clear of a store that was constructed
\* fails; an insert never pops from an empty store.
C17_NoLaterFailure ==
    (kind = "store" /\ last.op \in {"insert", "get", "clear"}) => last.ok

\* C18: in the unbounded wrapper, as long as the wrapped function has not
\* raised and was not re-entered with a key in progress: the wrapped function
\* is invoked with a key at most once, also when it returned None; an entry
\* of the dict is never removed or changed; a call with a stored key returns
\* the stored value without invoking anything.
C18_PlainAtMostOnce ==
    [][(kind = "plain" /\ ~upset') =>
        /\ (last'.op = "call" /\ ~last'.hit) =>
              (~(last'.key \in started) /\ stack' = Append(stack, last'.key))
        /\ \A i \in 1..Len(dict) : Len(dict') >= i /\ dict'[i] = dict[i]
        /\ (last'.op = "call" /\ OD_contains(dict, last'.key)) =>
              /\ last'.hit
              /\ last'.val = OD_getitem(dict, last'.key)
              /\ stack' = stack /\ started' = started
        /\ last'.op = "return" =>
              (OD_contains(dict', last'.key) /\ OD_getitem(dict', last'.key) = last'.val)
        /\ started' = OD_keyset(dict') \cup {stack'[i] : i \in 1..Len(stack')}]_vars

\* C18 witness: a call was served the None that an earlier call stored, while
\* another key is stored too.
C18_Witness ==
    /\ kind = "plain" /\ ~upset
    /\ last.op = "call" /\ last.hit /\ last.val = None
    /\ Len(dict) = 2 /\ started = {1, 2}
    /\ stack = << >>

\* C19: the misses counter is the number of invocations of the wrapped
\* function started since the last cache_clear (or the construction): a call
\* invokes the wrapped function exactly when it is counted a miss, and a miss
\* whose wrapped function returns does one insert, of that call's key and
\* result, before the call returns.
C19_MissesAreInvocations ==
    [][kind = "lru" =>
        /\ misses' = invoked'
        /\ last'.op = "call" =>
              /\ last'.hit <=> (misses' = misses)
              /\ (misses' = misses + 1) <=> (stack' = Append(stack, last'.key))
              /\ (misses' = misses) <=> (stack' = stack)
        /\ last'.op = "cache_clear" => invoked' = 0
        /\ last'.op = "return" =>
              /\ last'.key = Top /\ stack' = Pop
              /\ od' = LruCache_insert(od, capacity, last'.key, last'.val).od
              /\ last'.ok => (od' # << >> /\ od'[Len(od')] = <<last'.key, last'.val>>)
        /\ ~(last'.op \in {"call", "cache_clear"}) => invoked' = invoked]_vars

\* C19 witness: the second miss since a cache_clear has completed with its
\* insert, after a hit.
C19_Witness ==
    /\ kind = "lru"
    /\ last.op = "return" /\ last.ok
    /\ stack = << >>
    /\ misses = 2 /\ invoked = 2 /\ hits = 1 /\ calls = 3
    /\ od[Len(od)] = <<last.key, last.val>>

\* One sequence is the other in a different order.
Reordered(a, b) ==
    /\ a # b
    /\ Len(a) = Len(b)
    /\ \E p \in Permutations(1..Len(a)) : \A i \in 1..Len(a) : a[i] = b[p[i]]

\* C14 (as claimed): two calls with the same positional arguments and the same
\* keyword arguments written in any order have equal keys, and the second is
\* served from the store; two calls whose positional arguments are in a
\* different order have different keys.  For the key call_args and for the key
\* json.dumps(call_args).
C14_KeywordOrderIrrelevant ==
    kcalls = 2 =>
        /\ BoundArgs(kfirst) = BoundArgs(klast.call) =>
              /\ call_args(kfirst) = call_args(klast.call)
              /\ json_dumps(call_args(kfirst)) = json_dumps(call_args(klast.call))
              /\ klast.hit /\ klast.jhit
        /\ (Reordered(kfirst.args, klast.call.args) /\ kfirst.kwargs = klast.call.kwargs) =>
              /\ call_args(kfirst) # call_args(klast.call)
              /\ json_dumps(call_args(kfirst)) # json_dumps(call_args(klast.call))
              /\ ~klast.hit /\ ~klast.jhit

\* C15 (as claimed): two calls with unequal arguments have unequal keys, and
\* the second is not served what the first stored: it returns the result of
\* its own arguments.
C15_UnequalArgsUnequalKeys ==
    (kcalls = 2 /\ BoundArgs(kfirst) # BoundArgs(klast.call)) =>
        /\ call_args(kfirst) # call_args(klast.call)
        /\ json_dumps(call_args(kfirst)) # json_dumps(call_args(klast.call))
        /\ ~klast.hit /\ ~klast.jhit
        /\ klast.ret = BoundArgs(klast.call)
        /\ klast.jret = BoundArgs(klast.call)

\* C20 (as claimed): a call of a persistent wrapper with a key under which a
\* completed call has written returns what was written, without invoking the
\* wrapped function, whichever instance is called; nothing is ever removed
\* from the file; the handle a call opened is closed when the call has
\* returned or raised.
C20_WrittenIsServed ==
    [][/\ (slast'.op = "call" /\ Shelf_contains(written, slast'.key)) =>
              /\ slast'.ok /\ slast'.hit
              /\ slast'.val = Shelf_getitem(written, slast'.key)
              /\ frames' = frames
       /\ \A e \in shelf : Shelf_contains(shelf', e[1])
       /\ slast'.op \in {"return", "raise"} => nopen' = nopen - 1
       /\ nopen' = Len(frames')]_vars

====
